---- MODULE Spec2Model ----
(***************************************************************************)
(* A model of src/MobiParse.cpp: the PalmDoc decompressor, the trailing-   *)
(* data stripper, the Huffman cache unpacker and the MobiParse pipeline    *)
(* (ParseHeader, ReadRecord, LoadDocRecordIntoBuffer, LoadDocument,        *)
(* ParseFile).                                                             *)
(*                                                                         *)
(* Buffers are sequences: the byte at C offset k is element k + 1.         *)
(* size_t / uint32_t / DWORD arithmetic is 32 bits wide (see ULt).         *)
(* The build is either a debug build, in which a failing assert() aborts   *)
(* the process, or a release build, in which assert() is compiled out      *)
(* (assertsOn).  A read outside a buffer or of an uninitialised byte       *)
(* yields a byte the environment chooses (cx.g), or faults (cx.trap).      *)
(***************************************************************************)
EXTENDS Integers, Sequences, FiniteSets, TLC

VARIABLES
    pc,                 \* position of the driver of the function under study
    assertsOn,          \* TRUE: assert() is compiled in (debug build)
    \* ---- PalmdocUncompress call
    src,                \* the compressed input
    dstLen,             \* size of the destination buffer
    palmRes,            \* outcome of the call
    \* ---- ExtraDataSize call
    recData,            \* the raw record
    extraRes,           \* outcome of ExtraDataSize and of recSize -= extraSize
    \* ---- HuffDicDecompressor
    huffData,           \* the first dictionary record
    huffRes,            \* outcome of SetHuffData, with dict1
    \* ---- MobiParse
    file,               \* the file on disk
    recHeaders,         \* offsets of the records plus the sentinel
    firstRecData,       \* copy of record 0
    isMobi,
    docRecCount,
    compressionType,
    docUncompressedSize,
    multibyte,
    trailersCount,
    huffDic,
    doc,
    loopRec,            \* loop variable i of LoadDocument
    result,             \* what ParseFile returned
    failSite,           \* which return statement failed
    tableIdx,           \* indices at which recHeaders has been read
    recsRead            \* record numbers passed to ReadRecord

palmVars  == <<src, dstLen, palmRes>>
extraVars == <<recData, extraRes>>
huffVars  == <<huffData, huffRes>>
mobiVars  == <<file, recHeaders, firstRecData, isMobi, docRecCount,
               compressionType, docUncompressedSize, huffDic, doc, loopRec,
               result, failSite, tableIdx, recsRead>>
shapeVars == <<multibyte, trailersCount>>
vars == <<pc, assertsOn, palmVars, extraVars, huffVars, mobiVars, shapeVars>>

None == "none"

----------------------------------------------------------------------------
(* Machine arithmetic *)

\* A 32-bit word (size_t, uint32_t, DWORD, a pointer difference) is kept as
\* the integer of -2^31 .. 2^31 - 1 congruent to it modulo 2^32, so that a
\* subtraction that wraps around in C is a negative integer here.
\* ULt is the unsigned comparison a < b of two such words.
ULt(a, b) == IF (a >= 0) = (b >= 0) THEN a < b ELSE a >= 0
ULe(a, b) == a = b \/ ULt(a, b)

\* x >> k and x & (2^k - 1) on non-negative integers
Shr(x, k)  == x \div (2 ^ k)
Low(x, k)  == x % (2 ^ k)
\* bit k of x
Bit(x, k)  == Shr(x, k) % 2

\* c ^ 0x80 on a byte
Xor80(c) == IF Bit(c, 7) = 1 THEN c - 128 ELSE c + 128

\* BEtoHs / BEtoHl: big-endian bytes to a host integer
BEtoHs(b) == b[1] * 256 + b[2]
BEtoHl(b) ==
    ((IF b[1] >= 128 THEN b[1] - 256 ELSE b[1]) * 256 + b[2]) * 65536
        + b[3] * 256 + b[4]
\* a 16-bit field read on the little-endian host without a swap
HostI16(b) == b[2] * 256 + b[1]

\* buf[idx]: a byte of the buffer, or whatever lies outside it
ByteAt(buf, idx, g) == IF idx >= 0 /\ idx < Len(buf) THEN buf[idx + 1] ELSE g

\* the outcomes of undefined behaviour the environment may choose
GarbageBytes == {0, 65, 255}

----------------------------------------------------------------------------
(* PalmdocUncompress *)

NoFlags == [rdPastSrc |-> FALSE, rdBeforeDst |-> FALSE, rdUninit |-> FALSE,
            wrPastDst |-> FALSE]

PalmOut(ret, d, dl, st) ==
    [ret |-> ret,
     len |-> IF ret = "len" THEN Len(d) ELSE 0,
     \* the destination memory: what was written, then the debugging null
     buf |-> IF ret = "len" /\ Len(d) < dl THEN Append(d, 0) ELSE d,
     st  |-> st]

\* while (c > 0) { *dst++ = *src++; --c; }
RECURSIVE VerbatimCopy(_, _, _, _, _)
VerbatimCopy(s, sp, d, c, g) ==
    IF c = 0 THEN d
    ELSE VerbatimCopy(s, sp + 1, Append(d, ByteAt(s, sp, g)), c - 1, g)

\* a block copy of the n bytes that were at dstBack before the copy began
BackCopyBlock(d, back, n, g) ==
    d \o [k \in 1..n |->
            LET i == Len(d) - back + (k - 1)
            IN  ByteAt(d, i, g)]

\* while (n > 0) { *dst++ = *dstBack++; --n; }   with dstBack = dst - back
RECURSIVE BackCopy(_, _, _, _)
BackCopy(d, back, n, g) ==
    IF n = 0 THEN d
    ELSE LET i == Len(d) - back
         IN  BackCopy(Append(d, ByteAt(d, i, g)), back, n - 1, g)

\* (c >> 3) & 0x07ff  and  (c & 7) + 3  of the 16-bit opcode
BackDistance(v) == Low(Shr(v, 3), 11)
CopyLength(v)   == Low(v, 3) + 3

\* One pass of the loop  while (src < srcEnd)  and the passes after it.
\* s: the buffer src points into, srcLen: the length passed, sp: offset of
\* src, d: bytes written so far (dst is at Len(d)), dl: dstLen, st: the
\* out-of-range accesses made so far, cx: environment.
RECURSIVE PalmLoop(_, _, _, _, _, _, _)
PalmLoop(s, srcLen, sp, d, dl, st, cx) ==
    IF ~(sp < srcLen) THEN PalmOut("len", d, dl, st)
    ELSE
    LET dstLeft == dl - Len(d)
        c       == ByteAt(s, sp, cx.g)
    IN
    IF dstLeft = 0 THEN PalmOut(IF cx.ao THEN "abort" ELSE "fail", d, dl, st)
    ELSE IF c >= 1 /\ c <= 8 THEN
        IF ULt(dstLeft, c) THEN PalmOut(IF cx.ao THEN "abort" ELSE "fail", d, dl, st)
        ELSE LET past == sp + 1 + c > srcLen
                 st2  == [st EXCEPT !.rdPastSrc = @ \/ past]
             IN  IF past /\ cx.trap THEN PalmOut("crash", d, dl, st2)
                 ELSE PalmLoop(s, srcLen, sp + 1 + c,
                               VerbatimCopy(s, sp + 1, d, c, cx.g), dl, st2, cx)
    ELSE IF c < 128 THEN
        IF c = 0 /\ cx.ao THEN PalmOut("abort", d, dl, st)
        ELSE PalmLoop(s, srcLen, sp + 1, Append(d, c), dl, st, cx)
    ELSE IF c >= 192 THEN
        IF ULt(dstLeft, 2) THEN PalmOut(IF cx.ao THEN "abort" ELSE "fail", d, dl, st)
        ELSE PalmLoop(s, srcLen, sp + 1, d \o <<32, Xor80(c)>>, dl, st, cx)
    ELSE
        IF sp + 1 < srcLen THEN
            LET v    == c * 256 + ByteAt(s, sp + 1, cx.g)
                back == BackDistance(v)
                n    == CopyLength(v)
                bad  == back > Len(d) \/ ULt(dstLeft, n)
                st2  == [st EXCEPT
                           !.rdBeforeDst = @ \/ back > Len(d),
                           !.rdUninit    = @ \/ back = 0,
                           !.wrPastDst   = @ \/ ULt(dstLeft, n)]
            IN  IF cx.ao /\ bad THEN PalmOut("abort", d, dl, st)
                ELSE IF cx.trap /\ bad THEN PalmOut("crash", d, dl, st2)
                ELSE PalmLoop(s, srcLen, sp + 2, BackCopy(d, back, n, cx.g),
                              dl, st2, cx)
        ELSE IF cx.ao THEN PalmOut("abort", d, dl, st)
        ELSE PalmLoop(s, srcLen, sp + 1, d, dl, st, cx)

PalmdocUncompress(s, srcLen, dl, cx) == PalmLoop(s, srcLen, 0, <<>>, dl, NoFlags, cx)

----------------------------------------------------------------------------
(* ExtraDataSize *)

\* for (j = 0; j < 4; j++) { v = recData[newLen - 4 + j];
\*     if (0 != (v & 0x80)) n = 0;  n = (n << 7) | (v & 0x7f); }
RECURSIVE TrailerLen(_, _, _, _, _)
TrailerLen(rd, newLen, j, n, g) ==
    IF j = 4 THEN n
    ELSE LET v == ByteAt(rd, newLen - 4 + j, g)
         IN  TrailerLen(rd, newLen, j + 1,
                        (IF Bit(v, 7) = 1 THEN 0 ELSE n) * 128 + Low(v, 7), g)

\* recData[lo .. hi] lies inside the record
InRecord(rd, lo, hi) == lo >= 0 /\ hi < Len(rd)

ExtraOut(ret, rd, newLen, oob) ==
    [ret       |-> ret,
     newLen    |-> newLen,
     extraSize |-> Len(rd) - newLen,               \* return recLen - newLen
     recSize   |-> Len(rd) - (Len(rd) - newLen),   \* recSize -= extraSize
     rdOob     |-> oob]

\* if (multibyte) { ... }  return recLen - newLen;
MultibyteTrim(rd, newLen, mb, oob, cx) ==
    IF ~mb THEN ExtraOut("ok", rd, newLen, oob)
    ELSE IF ~ULt(0, newLen) THEN
        IF cx.ao THEN ExtraOut("abort", rd, newLen, oob)
        ELSE ExtraOut("ok", rd, newLen, oob)
    ELSE LET out == ~InRecord(rd, newLen - 1, newLen - 1)
             n   == Low(ByteAt(rd, newLen - 1, cx.g), 2) + 1
         IN  IF out /\ cx.trap THEN ExtraOut("crash", rd, newLen, TRUE)
             ELSE IF cx.ao /\ ULt(newLen, n) THEN ExtraOut("abort", rd, newLen, oob \/ out)
             ELSE ExtraOut("ok", rd, newLen - n, oob \/ out)

\* for (i = 0; i < trailersCount; i++) { ... newLen -= n; }
RECURSIVE TrailerLoop(_, _, _, _, _, _, _)
TrailerLoop(rd, newLen, i, tc, mb, oob, cx) ==
    IF ~(i < tc) THEN MultibyteTrim(rd, newLen, mb, oob, cx)
    ELSE IF cx.ao /\ ~ULt(4, newLen) THEN ExtraOut("abort", rd, newLen, oob)
    ELSE LET out == ~InRecord(rd, newLen - 4, newLen - 1)
             n   == TrailerLen(rd, newLen, 0, 0, cx.g)
         IN  IF out /\ cx.trap THEN ExtraOut("crash", rd, newLen, TRUE)
             ELSE IF cx.ao /\ ~ULt(n, newLen) THEN ExtraOut("abort", rd, newLen, oob \/ out)
             ELSE TrailerLoop(rd, newLen - n, i + 1, tc, mb, oob \/ out, cx)

ExtraDataSize(rd, tc, mb, cx) == TrailerLoop(rd, Len(rd), 0, tc, mb, FALSE, cx)

----------------------------------------------------------------------------
(* HuffDicDecompressor *)

kHuffHeaderLen == 24
kCacheEntries  == 256

\* n bytes of a buffer from offset off; bytes outside it are the environment's
Bytes(buf, off, n, g) == [k \in 1..n |-> ByteAt(buf, off + k - 1, g)]

\* v >> k of a 32-bit word, 2 <= k
UShr(v, k) == IF v >= 0 THEN v \div (2 ^ k) ELSE (v \div (2 ^ k)) + 2 ^ (32 - k)

\* (x << k) of a 32-bit word, for 0 <= x <= 2^24 and 1 <= k <= 31
Shl32(x, k) ==
    LET keep    == 32 - k
        lowbits == IF keep >= 26 THEN x ELSE x % (2 ^ keep)
    IN  IF keep <= 25 /\ lowbits >= 2 ^ (keep - 1)
            THEN ((lowbits - 2 ^ keep) * (2 ^ (k - 1))) * 2
            ELSE (lowbits * (2 ^ (k - 1))) * 2

\* x - 1 of a 32-bit word
Dec32(x) == IF x = (-2147483647) - 1 THEN 2147483647 ELSE x - 1

\* A Dict1Entry of the freshly allocated decompressor is never initialised:
\* its fields are indeterminate, which is kept as the value Indeterminate
\* (no code reads dict1, so no value has to be chosen for them).
Indeterminate == -1
UninitEntry   == [codeLen |-> Indeterminate, term |-> Indeterminate,
                  maxCode |-> Indeterminate]

\* the three fields the loop body computes from cache[i]
CacheEntry(data, off, i, g) ==
    LET v       == BEtoHl(Bytes(data, off + 4 * i, 4, g))
        codeLen == Low(v, 5)
    IN  [codeLen |-> codeLen,
         term    |-> Bit(v, 7) * 128,
         maxCode |-> IF codeLen = 0 THEN 0
                     ELSE Dec32(Shl32(UShr(v, 8) + 1, 32 - codeLen))]

\* the two  return false  of the loop body
ZeroLength(e)  == 0 = e.codeLen
NotTerminal(e) == e.codeLen <= 8 /\ 0 = e.term

\* for (i = 0; i < 256; i++) { ... }  over the cache at data + off: the loop
\* stops at the first entry that returns false, having stored its codeLen
\* (and its term, if the length was not zero); later entries stay as they were.
\* [ok, dict1]
UnpackCacheData(data, off, dict1, g) ==
    LET e(i)  == CacheEntry(data, off, i, g)
        bad   == {i \in 0..(kCacheEntries - 1) : ZeroLength(e(i)) \/ NotTerminal(e(i))}
        stop  == IF bad = {} THEN kCacheEntries
                 ELSE CHOOSE i \in bad : \A j \in bad : i <= j
    IN  [ok    |-> bad = {},
         dict1 |-> [i \in 0..(kCacheEntries - 1) |->
                      IF i < stop THEN e(i)
                      ELSE IF i > stop THEN dict1[i]
                      ELSE IF ZeroLength(e(i))
                          THEN [dict1[i] EXCEPT !.codeLen = e(i).codeLen]
                      ELSE [dict1[i] EXCEPT !.codeLen = e(i).codeLen,
                                            !.term = e(i).term]]]

\* the record after SwapU32 of hdrLen, cacheOffset and baseTableOffset in place
SwappedHuffHeader(hd) ==
    [k \in 1..Len(hd) |->
        IF k > 4 /\ k <= 16 THEN hd[4 * ((k - 1) \div 4) + 4 - ((k - 1) % 4)]
        ELSE hd[k]]

HuffOut(ret, dict1, unpacked, oob, baseOff, baseLen) ==
    [ret |-> ret, dict1 |-> dict1, unpackOk |-> unpacked, cacheOob |-> oob,
     baseTableOffset |-> baseOff, baseTableLen |-> baseLen]

\* the decompressor as the constructor leaves it, and SetHuffData on it
NewHuffDic == [i \in 0..(kCacheEntries - 1) |-> UninitEntry]

HuffId == <<72, 85, 70, 70>>

SetHuffData(hd, cx) ==
    LET fresh           == NewHuffDic
        huffDataLen     == Len(hd)
        hdrLen          == BEtoHl(SubSeq(hd, 5, 8))
        cacheOffset     == BEtoHl(SubSeq(hd, 9, 12))
        baseTableOffset == BEtoHl(SubSeq(hd, 13, 16))
        huffmanData     == SwappedHuffHeader(hd)
        oob             == ~InRecord(hd, cacheOffset, cacheOffset + 4 * kCacheEntries - 1)
        unpacked        == UnpackCacheData(huffmanData, cacheOffset, fresh, cx.g)
    IN
    IF cx.ao /\ ~(huffDataLen > kHuffHeaderLen)
        THEN HuffOut("abort", fresh, FALSE, FALSE, 0, 0)
    ELSE IF huffDataLen < kHuffHeaderLen
        THEN HuffOut("false", fresh, FALSE, FALSE, 0, 0)
    ELSE IF SubSeq(hd, 1, 4) # HuffId
        THEN HuffOut("false", fresh, FALSE, FALSE, 0, 0)
    ELSE IF hdrLen # kHuffHeaderLen
        THEN HuffOut(IF cx.ao THEN "abort" ELSE "false", fresh, FALSE, FALSE, 0, 0)
    ELSE IF baseTableOffset # cacheOffset + 1024
        THEN HuffOut("false", fresh, FALSE, FALSE, 0, 0)
    ELSE IF ~ULt(baseTableOffset, huffDataLen)
        THEN HuffOut("false", fresh, FALSE, FALSE, 0, 0)
    ELSE IF oob /\ cx.trap
        THEN HuffOut("crash", fresh, FALSE, TRUE, 0, 0)
    ELSE HuffOut("true", unpacked.dict1, unpacked.ok, oob,
                 baseTableOffset, huffDataLen - baseTableOffset)

----------------------------------------------------------------------------
(* MobiParse *)

MOBI_TYPE_CREATOR    == "BOOKMOBI"
PALMDOC_TYPE_CREATOR == "TEXtREAd"

COMPRESSION_NONE == 1
COMPRESSION_PALM == 2
COMPRESSION_HUFF == 17480

ENCRYPTION_NONE == 0

kPalmDocHeaderLen == 16
kPalmBufLen       == 6000

\* offsets of the fields read, in record 0: PalmDocHeader, then MobiHeader
OffCompressionType     == 0
OffUncompressedDocSize == 4
OffRecordsCount        == 8
OffEncrType            == 12
OffMobiId              == 16
OffHdrLen              == 20
OffExhtFlags           == 128
OffHuffmanFirstRec     == 112
OffHuffmanRecCount     == 116
OffExtraDataFlags      == 242

MobiId == <<77, 79, 66, 73>>

IsMobiPdb(type)    == type = MOBI_TYPE_CREATOR
IsPalmDocPdb(type) == type = PALMDOC_TYPE_CREATOR

IsValidCompression(comprType) ==
    \/ COMPRESSION_NONE = comprType
    \/ COMPRESSION_PALM = comprType
    \/ COMPRESSION_HUFF = comprType

\* the encryption test runs on the field read without SwapI16
EncryptionRefusedOldOnly(mobi, encrField) == mobi /\ BEtoHs(encrField) = 1

\* if (isMobi) if (palmDocHdr->mobi.encrType != ENCRYPTION_NONE) return false
EncryptionRefused(mobi, encrField) ==
    mobi /\ HostI16(encrField) # ENCRYPTION_NONE

\* while (flags > 1) { if (0 != (flags & 2)) trailersCount++; flags >>= 1; }
RECURSIVE CountTrailers(_, _)
CountTrailers(flags, n) ==
    IF ~(flags > 1) THEN n
    ELSE CountTrailers(Shr(flags, 1), IF Bit(flags, 1) # 0 THEN n + 1 ELSE n)

\* recHeaders[k].offset; the array has numRecords + 1 elements
TableAt(rh, k, gw) == IF k >= 0 /\ k < Len(rh) THEN rh[k + 1] ELSE gw

\* size = recHeaders[recNo + 1].offset - recHeaders[recNo].offset
GetRecordSize(rh, recNo, cx) ==
    TableAt(rh, recNo + 1, cx.gw2) - TableAt(rh, recNo, cx.gw1)

\* [ok, data, oob]: SetFilePointer to the offset, ReadFile of toRead bytes,
\* which must all arrive
ReadRecord(rh, data, recNo, cx) ==
    LET off    == TableAt(rh, recNo, cx.gw1)
        toRead == GetRecordSize(rh, recNo, cx)
        oob    == ~(recNo + 1 < Len(rh))
        avail  == IF off >= 0 /\ off <= Len(data) THEN Len(data) - off ELSE 0
    IN  IF oob /\ cx.trap THEN [ok |-> "crash", data |-> <<>>, oob |-> TRUE]
        ELSE IF off < 0 \/ toRead < 0 \/ toRead > avail
            THEN [ok |-> "false", data |-> <<>>, oob |-> oob]
        ELSE [ok |-> "true", data |-> SubSeq(data, off + 1, off + toRead),
              oob |-> oob]

\* the MobiParse object as the constructor leaves it
NewMobiParse ==
    [recHeaders |-> <<>>, firstRecData |-> None, isMobi |-> FALSE,
     docRecCount |-> 0, compressionType |-> 0, docUncompressedSize |-> 0,
     multibyte |-> FALSE, trailersCount |-> 0, huffDic |-> None,
     tableIdx |-> {}, recsRead |-> {},
     \* not a member: TRUE once the call has read outside an array
     ub |-> FALSE]

Returns(mb, ret, site) == [mb |-> mb, ret |-> ret, site |-> site]

\* the part of ParseHeader that loads the Huffman dictionary
ParseHuffman(f, mb, R, cx) ==
    LET first == BEtoHl(Bytes(R, OffHuffmanFirstRec, 4, cx.g))
        count == BEtoHl(Bytes(R, OffHuffmanRecCount, 4, cx.g))
        rr    == ReadRecord(mb.recHeaders, f.data, first, cx)
        mb1   == [mb EXCEPT !.tableIdx = @ \cup {first, first + 1},
                            !.recsRead = @ \cup {first},
                            !.ub = @ \/ rr.oob]
        sh    == SetHuffData(rr.data, cx)
        mb2   == [mb1 EXCEPT !.huffDic = sh, !.ub = @ \/ sh.cacheOob]
        rr2   == ReadRecord(mb.recHeaders, f.data, first + 1, cx)
        mb3   == [mb2 EXCEPT !.tableIdx = @ \cup {first + 1, first + 2},
                             !.recsRead = @ \cup {first + 1},
                             !.ub = @ \/ rr2.oob]
    IN
    IF cx.ao /\ ~mb.isMobi THEN Returns(mb, "abort", "assert(isMobi)")
    ELSE IF rr.ok # "true"
        THEN Returns(mb1, IF rr.ok = "crash" THEN "crash" ELSE "false",
                     "ReadRecord(huffmanFirstRec)")
    ELSE IF sh.ret # "true"
        THEN Returns(mb2, sh.ret, "SetHuffData")
    ELSE IF ~ULt(1, count) THEN Returns(mb2, "true", None)
    ELSE IF rr2.ok # "true"
        THEN Returns(mb3, IF rr2.ok = "crash" THEN "crash" ELSE "false",
                     "ReadRecord(huffmanFirstRec + i)")
    ELSE Returns(mb3, "false", "AddCdicData")

\* the part of ParseHeader that reads the MobiHeader after the PalmDocHeader
ParseMobiHeader(f, mb, R, recLeft, cx) ==
    LET hdrLen == BEtoHl(Bytes(R, OffHdrLen, 4, cx.g))
        \* SwapU32 of the fields up to exhtFlags, in place
        oob    == ~InRecord(R, OffHdrLen, OffExhtFlags + 3)
        hasExtraFlags == ULe(228, hdrLen)
        flags  == BEtoHs(Bytes(R, OffExtraDataFlags, 2, cx.g))
        mbu    == [mb EXCEPT !.ub = @ \/ oob]
        mb1    == IF hasExtraFlags
                     THEN [mbu EXCEPT !.multibyte = (Bit(flags, 0) # 0),
                                      !.trailersCount = CountTrailers(flags, @)]
                     ELSE mbu
    IN
    IF ULt(recLeft, 8) THEN Returns(mb, "false", "recLeft < 8")
    ELSE IF Bytes(R, OffMobiId, 4, cx.g) # MobiId
        THEN Returns(mbu, "false", "MobiHeader.id is not 'MOBI'")
    ELSE IF oob /\ cx.trap THEN Returns(mbu, "crash", "SwapU32")
    ELSE IF ULt(recLeft, hdrLen) THEN Returns(mbu, "false", "MobiHeader too big")
    ELSE IF mb.compressionType = COMPRESSION_HUFF
        THEN ParseHuffman(f, mb1, R, cx)
    ELSE Returns(mb1, "true", None)

\* bool MobiParse::ParseHeader()
ParseHeader(f, cx) ==
    LET mb0  == NewMobiParse
        mb1  == [mb0 EXCEPT !.isMobi = IsMobiPdb(f.type)]
        rh   == Append(f.table, Len(f.data))
        mb2  == [mb1 EXCEPT !.recHeaders = rh]
        r0   == ReadRecord(rh, f.data, 0, cx)
        R    == r0.data
        mb3  == [mb2 EXCEPT !.firstRecData = R, !.tableIdx = {0, 1},
                            !.recsRead = {0},
                            !.ub = ~InRecord(R, 0, kPalmDocHeaderLen - 1)]
        compressionTypeRead == BEtoHs(Bytes(R, OffCompressionType, 2, cx.g))
        uncompressedDocSize == BEtoHl(Bytes(R, OffUncompressedDocSize, 4, cx.g))
        recordsCount        == BEtoHs(Bytes(R, OffRecordsCount, 2, cx.g))
        encrField           == Bytes(R, OffEncrType, 2, cx.g)
        recLeft == Len(R) - kPalmDocHeaderLen
        mb4  == [mb3 EXCEPT !.docRecCount = recordsCount,
                            !.docUncompressedSize = uncompressedDocSize,
                            !.compressionType = compressionTypeRead]
    IN
    IF ~f.headerComplete THEN Returns(mb0, "false", "kPdbHeaderLen != bytesRead")
    ELSE IF ~IsMobiPdb(f.type) /\ ~IsPalmDocPdb(f.type)
        THEN Returns(mb0, "false", "unknown pdb type/creator")
    ELSE IF f.numRecords < 1 THEN Returns(mb1, "false", "numRecords < 1")
    ELSE IF Len(f.table) # f.numRecords
        THEN Returns(mb1, "false", "toRead != bytesRead")
    ELSE IF \E i \in 0..(f.numRecords - 1) : rh[i + 2] < rh[i + 1]
        THEN Returns(mb2, "false", "invalid offset field")
    ELSE IF r0.ok # "true" THEN Returns(mb2, "false", "failed to read record")
    ELSE IF ~InRecord(R, 0, OffRecordsCount + 1) /\ cx.trap
        THEN Returns(mb3, "crash", "PalmDocHeader")
    ELSE IF ~IsValidCompression(compressionTypeRead)
        THEN Returns(mb3, "false", "unknown compression type")
    ELSE IF ~InRecord(R, 0, OffEncrType + 1) /\ mb1.isMobi /\ cx.trap
        THEN Returns(mb3, "crash", "PalmDocHeader")
    ELSE IF EncryptionRefused(mb1.isMobi, encrField)
        THEN Returns(mb3, "false", "encryption is unsupported")
    ELSE IF 0 = recLeft
        THEN IF cx.ao /\ mb1.isMobi THEN Returns(mb4, "abort", "assert(!isMobi)")
             ELSE Returns(mb4, "true", None)
    ELSE ParseMobiHeader(f, mb4, R, recLeft, cx)

\* bool MobiParse::LoadDocRecordIntoBuffer(recNo, strOut):
\* [ret, site, out, ub] where out is what is appended to strOut and ub tells
\* that the call has read or written outside an array
LoadRecord(rh, data, recNo, tc, mbyte, comp, cx) ==
    LET rr      == ReadRecord(rh, data, recNo, cx)
        ex      == ExtraDataSize(rr.data, tc, mbyte, cx)
        recSize == ex.recSize
        un      == PalmdocUncompress(rr.data, recSize, kPalmBufLen, cx)
    IN
    IF rr.ok # "true"
        THEN [ret |-> IF rr.ok = "crash" THEN "crash" ELSE "false",
              site |-> "ReadRecord", out |-> <<>>]
    ELSE IF ex.ret # "ok"
        THEN [ret |-> ex.ret, site |-> "ExtraDataSize", out |-> <<>>]
    ELSE IF COMPRESSION_NONE = comp
        THEN IF recSize < 0 \/ recSize > Len(rr.data)
                 THEN [ret |-> "crash", site |-> "Append", out |-> <<>>]
             ELSE [ret |-> "true", site |-> None,
                   out |-> SubSeq(rr.data, 1, recSize)]
    ELSE IF COMPRESSION_PALM = comp
        THEN IF un.ret = "len"
                 THEN [ret |-> "true", site |-> None,
                       out |-> SubSeq(un.buf, 1, un.len)]
             ELSE IF un.ret = "fail"
                 THEN [ret |-> "false", site |-> "PalmDoc decompression failed",
                       out |-> <<>>]
             ELSE [ret |-> un.ret, site |-> "PalmdocUncompress", out |-> <<>>]
    ELSE IF COMPRESSION_HUFF = comp
        THEN [ret |-> "false", site |-> "COMPRESSION_HUFF", out |-> <<>>]
    ELSE [ret |-> IF cx.ao THEN "abort" ELSE "false", site |-> "assert(0)",
          out |-> <<>>]

LoadDocRecordIntoBuffer(rh, data, recNo, tc, mbyte, comp, cx) ==
    LET rr == ReadRecord(rh, data, recNo, cx)
        ex == ExtraDataSize(rr.data, tc, mbyte, cx)
        un == PalmdocUncompress(rr.data, ex.recSize, kPalmBufLen, cx)
        r  == LoadRecord(rh, data, recNo, tc, mbyte, comp, cx)
    IN  [ret |-> r.ret, site |-> r.site, out |-> r.out,
         ub  |-> \/ rr.oob
                 \/ rr.ok = "true" /\ (ex.rdOob \/ ex.recSize < 0)
                 \/ /\ rr.ok = "true" /\ ex.ret = "ok" /\ COMPRESSION_PALM = comp
                    /\ un.st # NoFlags]

----------------------------------------------------------------------------
(* The decompressor on its own: any input, any output bound *)

MaxSrcLen == 4
MaxDstLen == 5

PalmBytes == {0, 2, 8, 16, 65, 128, 200}

RECURSIVE SeqsUpTo(_, _)
SeqsUpTo(S, n) ==
    IF n = 0 THEN {<<>>}
    ELSE LET shorter == SeqsUpTo(S, n - 1)
         IN  shorter \cup {Append(q, b) : q \in {r \in shorter : Len(r) = n - 1}, b \in S}

PalmIdle  == src = <<>> /\ dstLen = 0 /\ palmRes = None
ExtraIdle == recData = <<>> /\ extraRes = None
HuffIdle  == huffData = None /\ huffRes = None
ShapeIdle == multibyte = FALSE /\ trailersCount = 0
MobiIdle  ==
    /\ file = None /\ recHeaders = <<>> /\ firstRecData = None
    /\ isMobi = FALSE /\ docRecCount = 0 /\ compressionType = 0
    /\ docUncompressedSize = 0 /\ huffDic = None /\ doc = <<>> /\ loopRec = 0
    /\ result = None /\ failSite = None /\ tableIdx = {} /\ recsRead = {}

PalmInit ==
    /\ pc = "PalmdocUncompress"
    /\ assertsOn \in BOOLEAN
    /\ src \in SeqsUpTo(PalmBytes, MaxSrcLen)
    /\ dstLen \in 0..MaxDstLen
    /\ palmRes = None
    /\ ExtraIdle /\ HuffIdle /\ ShapeIdle /\ MobiIdle

PalmCall ==
    /\ pc = "PalmdocUncompress"
    /\ \E g \in GarbageBytes, trap \in BOOLEAN :
          palmRes' = PalmdocUncompress(src, Len(src), dstLen,
                                       [ao |-> assertsOn, g |-> g, trap |-> trap])
    /\ pc' = "returned"
    /\ UNCHANGED <<assertsOn, src, dstLen, extraVars, huffVars, mobiVars, shapeVars>>

PalmNext == PalmCall
SpecPalm == PalmInit /\ [][PalmNext]_vars

\* ---- the expansion as the format defines it, written without the code

\* n bytes repeating the last dist bytes of out
RefRepeat(out, dist, n) ==
    [k \in 1..n |-> out[Len(out) - dist + ((k - 1) % dist) + 1]]

\* [ok, out]: ok is FALSE when the input is not a well-formed opcode stream
RECURSIVE RefExpand(_, _, _)
RefExpand(s, i, out) ==
    IF i > Len(s) THEN [ok |-> TRUE, out |-> out]
    ELSE LET c == s[i] IN
         IF c = 0 THEN [ok |-> FALSE, out |-> out]
         ELSE IF c <= 8 THEN
             IF i + c > Len(s) THEN [ok |-> FALSE, out |-> out]
             ELSE RefExpand(s, i + c + 1, out \o SubSeq(s, i + 1, i + c))
         ELSE IF c <= 127 THEN RefExpand(s, i + 1, out \o <<c>>)
         ELSE IF c >= 192 THEN RefExpand(s, i + 1, out \o <<32, c - 128>>)
         ELSE IF i + 1 > Len(s) THEN [ok |-> FALSE, out |-> out]
         ELSE LET v    == c * 256 + s[i + 1]
                  dist == (v \div 8) % 2048
                  n    == (v % 8) + 3
              IN  IF dist < 1 \/ dist > Len(out) THEN [ok |-> FALSE, out |-> out]
                  ELSE RefExpand(s, i + 2, out \o RefRepeat(out, dist, n))

Reference == RefExpand(src, 1, <<>>)
WellFormedAndFits == Reference.ok /\ Len(Reference.out) <= dstLen

\* C1: PalmdocUncompress never writes an output byte at a position >=
\* maxOutputLen, and never returns a length larger than the bound: a step
\* that would write past the bound makes the call return failure.
C1_OutputBoundRespected ==
    pc = "returned" =>
        /\ ~palmRes.st.wrPastDst
        /\ (palmRes.ret = "len" => palmRes.len <= dstLen)

\* C5: a back-reference whose distance is greater than the number of bytes
\* produced so far makes the call fail; no byte before the start of the
\* output buffer is read.
C5_BackReferenceChecked ==
    pc = "returned" =>
        /\ ~palmRes.st.rdBeforeDst
        /\ (/\ Len(src) >= 2 /\ src[1] >= 128 /\ src[1] < 192
            /\ BackDistance(src[1] * 256 + src[2]) > 0
            /\ dstLen >= CopyLength(src[1] * 256 + src[2])
            => palmRes.ret = "fail")

\* C8: on a well-formed input whose expansion fits in the bound, the call
\* returns the number of bytes produced and the output is the reference
\* expansion, byte for byte; the debugging null is not counted.
C8_WellFormedExpansion ==
    (pc = "returned" /\ WellFormedAndFits) =>
        /\ palmRes.ret = "len"
        /\ palmRes.len = Len(Reference.out)
        /\ SubSeq(palmRes.buf, 1, palmRes.len) = Reference.out
        /\ palmRes.st = NoFlags

\* a well-formed input with a back-reference whose distance is smaller than
\* its length has been expanded
C8_Witness ==
    /\ pc = "returned" /\ WellFormedAndFits
    /\ \E i \in 1..(Len(src) - 1) :
          /\ src[i] = 128 /\ BackDistance(src[i] * 256 + src[i + 1]) = 1
          /\ palmRes.len >= i + 2
    /\ palmRes.ret = "len"

\* C10: PalmdocUncompress never reads an input byte at an index >= srcLen.
C10_InputBoundRespected ==
    pc = "returned" => ~palmRes.st.rdPastSrc

----------------------------------------------------------------------------
(* The trailing-data stripper on its own: any record, any shape *)

MaxRecLen   == 5
MaxTrailers == 2

\* 0x81, 0x82: a base-128 length of 1, 2 that ends the number; 3, 0: bytes
\* whose low bits give a multibyte trim of 4 and of 1
ExtraBytes == {0, 3, 129, 130}

ExtraInit ==
    /\ pc = "ExtraDataSize"
    /\ assertsOn \in BOOLEAN
    /\ recData \in SeqsUpTo(ExtraBytes, MaxRecLen)
    /\ trailersCount \in 0..MaxTrailers
    /\ multibyte \in BOOLEAN
    /\ extraRes = None
    /\ PalmIdle /\ HuffIdle /\ MobiIdle

ExtraCall ==
    /\ pc = "ExtraDataSize"
    /\ \E g \in GarbageBytes, trap \in BOOLEAN :
          extraRes' = ExtraDataSize(recData, trailersCount, multibyte,
                                    [ao |-> assertsOn, g |-> g, trap |-> trap])
    /\ pc' = "returned"
    /\ UNCHANGED <<assertsOn, recData, palmVars, huffVars, mobiVars, shapeVars>>

ExtraNext == ExtraCall
SpecExtra == ExtraInit /\ [][ExtraNext]_vars

\* C4: trailing-data stripping reads only bytes inside the record and every
\* shrink leaves a remaining length in 0..recLen; a shrink that would exceed
\* the remaining length makes the record load fail (CorruptTrailingData)
\* instead of continuing with a wrapped-around length.
C4_TrailingDataChecked ==
    pc = "returned" =>
        /\ ~extraRes.rdOob
        /\ extraRes.ret \in {"ok", "CorruptTrailingData"}
        /\ (extraRes.ret = "ok" =>
                extraRes.recSize >= 0 /\ extraRes.recSize <= Len(recData))

----------------------------------------------------------------------------
(* The Huffman initialisation on its own: any first dictionary record *)

\* cache entries: length 8 terminal; length 0; length 8 not terminal;
\* length 9 not terminal; length 31 terminal with the largest code
CacheEntries == {<<0, 0, 0, 136>>, <<0, 0, 0, 0>>, <<0, 0, 0, 8>>,
                 <<0, 0, 1, 9>>, <<255, 255, 255, 159>>}
CachePlaces  == {0, 128, 255}
HuffLens     == {20, 24, 1048, 1049}

\* a record with the 24-byte header, then a cache whose entries are e0
\* except entry idx, which is e1, then one byte of base table
HuffRecord(len, id, hdrLen, cacheOff, baseOff, e0, e1, idx) ==
    [k \in 1..len |->
        LET o == k - 1 IN
        IF o < 4 THEN id[o + 1]
        ELSE IF o < 8 THEN hdrLen[o - 3]
        ELSE IF o < 12 THEN cacheOff[o - 7]
        ELSE IF o < 16 THEN baseOff[o - 11]
        ELSE IF o < 24 THEN 0
        ELSE IF o < 24 + 4 * kCacheEntries
            THEN (IF (o - 24) \div 4 = idx THEN e1 ELSE e0)[((o - 24) % 4) + 1]
        ELSE 0]

HuffRecords ==
    {HuffRecord(len, id, hl, co, bo, e0, e1, idx) :
        len \in HuffLens, id \in {HuffId, <<72, 85, 70, 0>>},
        hl \in {<<0, 0, 0, 24>>, <<24, 0, 0, 0>>},
        co \in {<<0, 0, 0, 24>>, <<255, 255, 252, 0>>},
        bo \in {<<0, 0, 4, 24>>, <<0, 0, 0, 0>>},
        e0 \in CacheEntries, e1 \in CacheEntries, idx \in CachePlaces}

HuffInit ==
    /\ pc = "SetHuffData"
    /\ assertsOn \in BOOLEAN
    /\ huffData \in HuffRecords
    /\ huffRes = None
    /\ PalmIdle /\ ExtraIdle /\ ShapeIdle /\ MobiIdle

HuffCall ==
    /\ pc = "SetHuffData"
    /\ \E g \in GarbageBytes, trap \in BOOLEAN :
          huffRes' = SetHuffData(huffData, [ao |-> assertsOn, g |-> g, trap |-> trap])
    /\ pc' = "returned"
    /\ UNCHANGED <<assertsOn, huffData, palmVars, extraVars, mobiVars, shapeVars>>

HuffNext == HuffCall
SpecHuff == HuffInit /\ [][HuffNext]_vars

\* C9: SetHuffData succeeds only if all 256 cache entries (here: of a cache
\* that lies inside the record) satisfy the table invariants: after a
\* successful initialisation every entry has a nonzero code length and every
\* entry of length <= 8 is terminal.
C9_CacheInvariantEnforced ==
    (pc = "returned" /\ huffRes.ret = "true" /\ ~huffRes.cacheOob) =>
        \A i \in 0..(kCacheEntries - 1) :
            /\ huffRes.dict1[i].codeLen >= 1
            /\ (huffRes.dict1[i].codeLen <= 8 => huffRes.dict1[i].term = 128)

----------------------------------------------------------------------------
(* ParseFile on a file: ParseHeader, then LoadDocument *)

MaxTextRecs == 2
MaxDocSize  == 2

\* text records: a literal; a literal and a space pair (3 bytes when
\* PalmDoc-expanded); a literal and a one-byte trailer
TextRecs == {<<65>>, <<66, 200>>, <<65, 129>>}

BE16(n) == <<n \div 256, n % 256>>
BE32(n) == <<0, 0, n \div 256, n % 256>>

\* record 0: a PalmDocHeader and, when len allows, a MobiHeader
Rec0(len, comp, size, count, encr, id, hdrLen, flags, hfirst, hcount) ==
    [k \in 1..len |->
        LET o == k - 1 IN
        IF o < 2 THEN BE16(comp)[o + 1]
        ELSE IF o >= 4 /\ o < 8 THEN BE32(size)[o - 3]
        ELSE IF o >= 8 /\ o < 10 THEN BE16(count)[o - 7]
        ELSE IF o >= 12 /\ o < 14 THEN BE16(encr)[o - 11]
        ELSE IF o >= 16 /\ o < 20 THEN id[o - 15]
        ELSE IF o >= 20 /\ o < 24 THEN BE32(hdrLen)[o - 19]
        ELSE IF o >= 112 /\ o < 116 THEN BE32(hfirst)[o - 111]
        ELSE IF o >= 116 /\ o < 120 THEN BE32(hcount)[o - 115]
        ELSE IF o >= 242 /\ o < 244 THEN BE16(flags)[o - 241]
        ELSE 0]

PalmOnlyHeaders ==
    {Rec0(16, comp, size, count, encr, MobiId, 0, 0, 0, 0) :
        comp \in {1, 2, 17480, 3}, size \in 0..MaxDocSize,
        count \in 0..(MaxTextRecs + 1), encr \in {0, 1}}

MobiHeaders ==
    {Rec0(248, comp, 2, count, encr, MobiId, 232, flags, 0, 0) :
        comp \in {1, 2}, count \in {1, 2}, encr \in {0, 2}, flags \in 0..3}

HuffHeaders ==
    {Rec0(248, 17480, 2, count, 0, MobiId, 232, 0, hfirst, hcount) :
        count \in {0, 1}, hfirst \in 1..(MaxTextRecs + 2), hcount \in 0..2}

BrokenHeaders ==
    {Rec0(10, 1, 1, 1, 0, MobiId, 0, 0, 0, 0),
     Rec0(20, 1, 1, 1, 0, MobiId, 0, 0, 0, 0),
     Rec0(248, 1, 1, 1, 0, <<77, 79, 66, 0>>, 232, 0, 0, 0),
     Rec0(24, 1, 1, 1, 0, MobiId, 232, 0, 0, 0),
     Rec0(24, 1, 1, 1, 0, MobiId, 8, 0, 0, 0),
     Rec0(24, 17480, 1, 1, 0, MobiId, 8, 0, 0, 0)}

\* dictionary records: a good one, and one whose entry 128 has length 0
DictRecs ==
    {HuffRecord(1049, HuffId, <<0, 0, 0, 24>>, <<0, 0, 0, 24>>, <<0, 0, 4, 24>>,
                <<0, 0, 0, 136>>, e1, 128) :
        e1 \in {<<0, 0, 0, 136>>, <<0, 0, 0, 0>>}}

RECURSIVE Concat(_)
Concat(recs) == IF recs = <<>> THEN <<>> ELSE Head(recs) \o Concat(Tail(recs))

\* the offsets of the records, laid out one after the other
RECURSIVE Offsets(_, _)
Offsets(recs, at) ==
    IF recs = <<>> THEN <<>>
    ELSE <<at>> \o Offsets(Tail(recs), at + Len(Head(recs)))

FileOf(type, recs) ==
    [headerComplete |-> TRUE, type |-> type, numRecords |-> Len(recs),
     table |-> Offsets(recs, 0), data |-> Concat(recs)]

TextLists == SeqsUpTo(TextRecs, MaxTextRecs)

BothTypes == {MOBI_TYPE_CREATOR, PALMDOC_TYPE_CREATOR}
FewTexts  == {<<>>, << <<65>> >>}

Files ==
    {FileOf(type, <<h>> \o texts) :
        type \in BothTypes, h \in PalmOnlyHeaders, texts \in TextLists}
    \cup
    {FileOf(MOBI_TYPE_CREATOR, <<h>> \o texts) :
        h \in MobiHeaders, texts \in TextLists}
    \cup
    {FileOf(type, <<h>> \o texts) :
        type \in BothTypes, h \in HuffHeaders \cup BrokenHeaders, texts \in FewTexts}
    \cup
    {FileOf(MOBI_TYPE_CREATOR, <<h>> \o texts \o <<d>>) :
        h \in HuffHeaders, texts \in FewTexts, d \in DictRecs}

\* files that are no envelope: cut short, of another type, without records,
\* with a record table cut short, with offsets that decrease
BrokenFiles ==
    LET good == FileOf(PALMDOC_TYPE_CREATOR,
                       <<Rec0(16, 1, 1, 1, 0, MobiId, 0, 0, 0, 0), <<65>> >>)
    IN  {[good EXCEPT !.headerComplete = FALSE],
         [good EXCEPT !.type = "DATAdata"],
         [good EXCEPT !.numRecords = 0, !.table = <<>>],
         [good EXCEPT !.table = <<0>>],
         [good EXCEPT !.table = <<16, 0>>]}

\* words the environment may leave beyond the end of recHeaders
GarbageWords(f) ==
    {0, Len(f.data)} \cup (IF Len(f.table) >= 2 THEN {f.table[2]} ELSE {})

\* the environments of a call: what the environment chooses shows only
\* once the call reads or writes outside an array (ub), so that one
\* environment stands for all of them when it does not
QuietEnv(ao) == [ao |-> ao, g |-> 0, trap |-> FALSE, gw1 |-> 0, gw2 |-> 0]
DocEnvs(f, ao, ub) ==
    IF ub THEN [ao : {ao}, g : GarbageBytes, trap : BOOLEAN,
                gw1 : GarbageWords(f), gw2 : GarbageWords(f)]
    ELSE {QuietEnv(ao)}

DocInit ==
    /\ pc = "ParseHeader"
    /\ assertsOn \in BOOLEAN
    /\ file \in Files \cup BrokenFiles
    /\ recHeaders = <<>> /\ firstRecData = None
    /\ isMobi = FALSE /\ docRecCount = 0 /\ compressionType = 0
    /\ docUncompressedSize = 0 /\ huffDic = None /\ doc = <<>> /\ loopRec = 0
    /\ result = None /\ failSite = None /\ tableIdx = {} /\ recsRead = {}
    /\ PalmIdle /\ ExtraIdle /\ HuffIdle /\ ShapeIdle

\* ParseFile up to the call of LoadDocument: the object is built and
\* ParseHeader runs; a failure deletes the object and returns NULL.
\* CreateFile and the allocations (new, malloc, memdup) are taken to succeed.
ParseFileHeader ==
    /\ pc = "ParseHeader"
    /\ \E cx \in DocEnvs(file, assertsOn,
                         ParseHeader(file, QuietEnv(assertsOn)).mb.ub) :
          \E ph \in {ParseHeader(file, cx)} :
          /\ recHeaders' = ph.mb.recHeaders
          /\ firstRecData' = ph.mb.firstRecData
          /\ isMobi' = ph.mb.isMobi
          /\ docRecCount' = ph.mb.docRecCount
          /\ compressionType' = ph.mb.compressionType
          /\ docUncompressedSize' = ph.mb.docUncompressedSize
          /\ multibyte' = ph.mb.multibyte
          /\ trailersCount' = ph.mb.trailersCount
          /\ huffDic' = ph.mb.huffDic
          /\ tableIdx' = ph.mb.tableIdx
          /\ recsRead' = ph.mb.recsRead
          /\ failSite' = ph.site
          /\ pc' = IF ph.ret = "true" THEN "LoadDocument" ELSE "returned"
          /\ result' = IF ph.ret = "true" THEN None
                       ELSE IF ph.ret = "false" THEN "NULL" ELSE ph.ret
    /\ UNCHANGED <<assertsOn, file, doc, loopRec, palmVars, extraVars, huffVars>>

\* LoadDocument: the two asserts on entry, then i = 1
LoadDocumentEnter ==
    /\ pc = "LoadDocument"
    /\ IF assertsOn /\ ~(docUncompressedSize > 0)
          THEN /\ pc' = "returned" /\ result' = "abort"
               /\ failSite' = "assert(docUncompressedSize > 0)"
               /\ UNCHANGED loopRec
          ELSE /\ pc' = "LoadDocRecord" /\ loopRec' = 1
               /\ UNCHANGED <<result, failSite>>
    /\ UNCHANGED <<assertsOn, file, recHeaders, firstRecData, isMobi, docRecCount,
                   compressionType, docUncompressedSize, huffDic, doc, tableIdx,
                   recsRead, shapeVars, palmVars, extraVars, huffVars>>

\* LoadDocument: one pass of  for (i = 1; i <= docRecCount; i++)
LoadDocRecord ==
    /\ pc = "LoadDocRecord"
    /\ loopRec <= docRecCount
    /\ \E cx \in DocEnvs(file, assertsOn,
                         LoadDocRecordIntoBuffer(recHeaders, file.data, loopRec,
                             trailersCount, multibyte, compressionType,
                             QuietEnv(assertsOn)).ub) :
          \E r \in {LoadDocRecordIntoBuffer(recHeaders, file.data, loopRec,
                                            trailersCount, multibyte,
                                            compressionType, cx)} :
          /\ doc' = doc \o r.out
          /\ IF r.ret = "true"
                THEN /\ loopRec' = loopRec + 1
                     /\ UNCHANGED <<pc, result, failSite>>
                ELSE /\ pc' = "returned"
                     /\ result' = IF r.ret = "false" THEN "NULL" ELSE r.ret
                     /\ failSite' = r.site
                     /\ UNCHANGED loopRec
    /\ tableIdx' = tableIdx \cup {loopRec, loopRec + 1}
    /\ recsRead' = recsRead \cup {loopRec}
    /\ UNCHANGED <<assertsOn, file, recHeaders, firstRecData, isMobi, docRecCount,
                   compressionType, docUncompressedSize, huffDic, shapeVars,
                   palmVars, extraVars, huffVars>>

\* LoadDocument: the loop is over; assert on the size, return true, and
\* ParseFile returns the object
LoadDocumentExit ==
    /\ pc = "LoadDocRecord"
    /\ ~(loopRec <= docRecCount)
    /\ pc' = "returned"
    /\ IF assertsOn /\ docUncompressedSize # Len(doc)
          THEN /\ result' = "abort"
               /\ failSite' = "assert(docUncompressedSize == doc.Size())"
          ELSE /\ result' = "mb" /\ UNCHANGED failSite
    /\ UNCHANGED <<assertsOn, file, recHeaders, firstRecData, isMobi, docRecCount,
                   compressionType, docUncompressedSize, huffDic, doc, loopRec,
                   tableIdx, recsRead, shapeVars, palmVars, extraVars, huffVars>>

DocNext ==
    \/ ParseFileHeader
    \/ LoadDocumentEnter
    \/ LoadDocRecord
    \/ LoadDocumentExit

SpecDoc == DocInit /\ [][DocNext]_vars

\* ---- what the file holds, read without the code

FileRecord(f, i) ==
    SubSeq(f.data, f.table[i + 1] + 1,
           IF i + 1 < f.numRecords THEN f.table[i + 2] ELSE Len(f.data))

RECURSIVE TextOf(_, _, _)
TextOf(f, i, n) ==
    IF i > n THEN <<>> ELSE FileRecord(f, i) \o TextOf(f, i + 1, n)

\* record 0 was read, the envelope is of the MOBI variant and the
\* encryption-type field of its PalmDocHeader is not 0
EncryptedMobi ==
    /\ 0 \in recsRead
    /\ file.type = "BOOKMOBI"
    /\ Len(firstRecData) >= 16
    /\ firstRecData[13] * 256 + firstRecData[14] # 0

CompressionField == firstRecData[1] * 256 + firstRecData[2]

NothingDecoded == recsRead \subseteq {0} /\ loopRec = 0 /\ doc = <<>>

\* C2: ParseFile returns a document only if the length of the accumulated
\* document equals the header's declared uncompressedDocSize.
C2_SizeMismatchRejected ==
    (pc = "returned" /\ result = "mb") => Len(doc) = docUncompressedSize

\* C3: the record-offset table is never indexed at a position > numRecords,
\* whatever docRecCount, huffmanFirstRec and huffmanRecCount the file holds.
C3_RecordIndexChecked ==
    \A k \in tableIdx : k <= file.numRecords

\* C6 as claimed: a MOBI envelope whose encryption type is not 0 fails with
\* EncryptionUnsupported whatever the compression kind field holds, before
\* any text or dictionary record is read.
C6_EncryptionRejectedAnyCompression ==
    (pc = "returned" /\ EncryptedMobi) =>
        /\ result = "NULL"
        /\ failSite = "encryption is unsupported"
        /\ NothingDecoded

\* C6 as amended: a MOBI envelope whose encryption type is not 0 fails with
\* EncryptionUnsupported when its compression kind field is 1, 2 or 17480,
\* and with UnsupportedCompression otherwise; either way before any text or
\* dictionary record is read, so that no document byte is produced.
C6_EncryptionRejected ==
    (pc = "returned" /\ EncryptedMobi) =>
        /\ result = "NULL"
        /\ failSite = IF CompressionField \in {1, 2, 17480}
                          THEN "encryption is unsupported"
                          ELSE "unknown compression type"
        /\ NothingDecoded

\* an encrypted MOBI file with a valid compression kind and a text record
\* has been refused
C6_Witness ==
    /\ pc = "returned" /\ EncryptedMobi
    /\ CompressionField \in {1, 2, 17480}
    /\ file.numRecords >= 2
    /\ failSite = "encryption is unsupported"

\* C7: for a PalmDoc envelope with compression None and no extended header,
\* a successful decode returns the raw bytes of records 1..docRecCount of
\* the file, concatenated in record order.
C7_PlainPalmDocIsConcatenation ==
    (/\ pc = "returned" /\ result = "mb"
     /\ file.type = "TEXtREAd"
     /\ compressionType = 1
     /\ Len(firstRecData) = 16) =>
        /\ docRecCount < file.numRecords
        /\ doc = TextOf(file, 1, docRecCount)

====
